---- MODULE Spec2Model ----
(***************************************************************************)
(* Model of the exchange connector abstraction of barter-data:             *)
(*   - src/exchange/mod.rs: the Connector defaults, ExchangeId, its string *)
(*     form and its capability predicates;                                 *)
(*   - src/exchange/binance/futures/candle.rs: the BinanceCandle message,  *)
(*     its deserialisation, its subscription identity and its conversion   *)
(*     into MarketIter<Candle>.                                            *)
(* The subscription handshake that consumes expected_responses() and       *)
(* subscription_timeout() lives outside these two files and is modelled    *)
(* from the specification (section 4.3).                                   *)
(***************************************************************************)
EXTENDS Integers, Sequences, FiniteSets, TLC

VARIABLES
    \* ---- ExchangeId surface (exchange/mod.rs) ----
    exchange_id,      \* the ExchangeId variant under query
    str_form,         \* result of as_str(), or None
    display,          \* result of Display::fmt into an empty formatter
    tag,              \* result of Exchange::from(exchange_id)
    spot,             \* result of supports_spot()
    futures,          \* result of supports_futures()
    trades,           \* result of supports_trades()
    liquidations,     \* result of supports_liquidations()
    \* ---- subscription handshake ----
    hs,               \* "idle" | "awaiting" | "subscribed" | "failed" | "closed"
    map,              \* SubscriptionMap: identity -> "Pending" | "Confirmed" | "Failed"
    n_requests,       \* number of wire requests produced by requests()
    expected,         \* expected_responses(map), fixed when the requests are sent
    responses,        \* acks that resolved an entry so far
    elapsed,          \* seconds since the requests were sent
    error,            \* the handshake error: [kind, ids]
    violations,       \* protocol violations reported (unknown acks)
    duplicates,       \* duplicate acks ignored and logged
    \* ---- Binance candle pipeline (candle.rs) ----
    clock,            \* the local clock, read by Utc::now()
    instrument,       \* the Instrument the messages are normalised for
    raws,             \* wire messages received, in arrival order
    candles,          \* the BinanceCandle deserialised from each wire message
    ids,              \* id() of each BinanceCandle
    outs              \* MarketIter<Candle> produced for each BinanceCandle

exchangeVars == <<exchange_id, str_form, display, tag, spot, futures, trades, liquidations>>
handshakeVars ==
    <<hs, map, n_requests, expected, responses, elapsed, error, violations, duplicates>>
candleVars == <<clock, instrument, raws, candles, ids, outs>>
vars == <<exchangeVars, handshakeVars, candleVars>>

\* Option<T>; a result not yet produced is None
Some(v) == [some |-> TRUE, value |-> v]
None == [some |-> FALSE]

(***************************************************************************)
(* ExchangeId                                                              *)
(***************************************************************************)
ExchangeId ==
    {"BinanceFuturesUsd", "BinanceSpot", "Bitfinex", "Coinbase", "GateioFuturesBtc",
     "GateioFuturesUsd", "GateioSpot", "Kraken", "Okx"}

\* copy-paste slip: the Okx arm returns Kraken's string
as_str_dup(e) ==
    CASE e = "BinanceSpot" -> <<"b","i","n","a","n","c","e","_","s","p","o","t">>
      [] e = "BinanceFuturesUsd" ->
            <<"b","i","n","a","n","c","e","_","f","u","t","u","r","e","s","_","u","s","d">>
      [] e = "Bitfinex" -> <<"b","i","t","f","i","n","e","x">>
      [] e = "Coinbase" -> <<"c","o","i","n","b","a","s","e">>
      [] e = "GateioSpot" -> <<"g","a","t","e","i","o","_","s","p","o","t">>
      [] e = "GateioFuturesUsd" ->
            <<"g","a","t","e","i","o","_","f","u","t","u","r","e","s","_","u","s","d">>
      [] e = "GateioFuturesBtc" ->
            <<"g","a","t","e","i","o","_","f","u","t","u","r","e","s","_","b","t","c">>
      [] e = "Kraken" -> <<"k","r","a","k","e","n">>
      [] e = "Okx" -> <<"k","r","a","k","e","n">>

\* ExchangeId::as_str; a &'static str is modelled as its sequence of characters
as_str(e) ==
    CASE e = "BinanceSpot" -> <<"b","i","n","a","n","c","e","_","s","p","o","t">>
      [] e = "BinanceFuturesUsd" ->
            <<"b","i","n","a","n","c","e","_","f","u","t","u","r","e","s","_","u","s","d">>
      [] e = "Bitfinex" -> <<"b","i","t","f","i","n","e","x">>
      [] e = "Coinbase" -> <<"c","o","i","n","b","a","s","e">>
      [] e = "GateioSpot" -> <<"g","a","t","e","i","o","_","s","p","o","t">>
      [] e = "GateioFuturesUsd" ->
            <<"g","a","t","e","i","o","_","f","u","t","u","r","e","s","_","u","s","d">>
      [] e = "GateioFuturesBtc" ->
            <<"g","a","t","e","i","o","_","f","u","t","u","r","e","s","_","b","t","c">>
      [] e = "Kraken" -> <<"k","r","a","k","e","n">>
      [] e = "Okx" -> <<"o","k","x">>

\* Display for ExchangeId: write!(f, "{}", self.as_str()) appends to the formatter
fmt(e, f) == f \o as_str(e)

\* to_string(): format into an empty buffer
to_string(e) == fmt(e, <<>>)

\* barter_integration::model::Exchange::from(&str): a newtype around the string
Exchange_from_str(s) == [exchange |-> s]

\* From<ExchangeId> for Exchange
Exchange_from(e) == Exchange_from_str(as_str(e))

\* inherits the "all true except named exceptions" default for nothing: Okx dropped
supports_spot_no_okx(e) ==
    CASE e = "BinanceFuturesUsd" -> FALSE
      [] e = "Okx" -> FALSE
      [] OTHER -> TRUE

supports_spot(e) ==
    CASE e = "BinanceFuturesUsd" -> FALSE
      [] OTHER -> TRUE

supports_futures(e) ==
    CASE e = "BinanceFuturesUsd" -> TRUE
      [] e = "Okx" -> TRUE
      [] OTHER -> FALSE

\* match self { _ => true }
supports_trades(e) ==
    CASE e \in ExchangeId -> TRUE

supports_liquidations(e) ==
    CASE e = "BinanceFuturesUsd" -> TRUE
      [] OTHER -> FALSE

\* The market segment a variant denotes, read off the variant's name
FuturesSegment == {"BinanceFuturesUsd", "GateioFuturesUsd", "GateioFuturesBtc"}

InitExchange ==
    /\ exchange_id \in ExchangeId
    /\ str_form = None
    /\ display = None
    /\ tag = None
    /\ spot = None
    /\ futures = None
    /\ trades = None
    /\ liquidations = None

CallAsStr ==
    /\ str_form = None
    /\ str_form' = Some(as_str(exchange_id))
    /\ UNCHANGED <<exchange_id, display, tag, spot, futures, trades, liquidations>>

CallDisplay ==
    /\ display = None
    /\ display' = Some(to_string(exchange_id))
    /\ UNCHANGED <<exchange_id, str_form, tag, spot, futures, trades, liquidations>>

CallExchangeFrom ==
    /\ tag = None
    /\ tag' = Some(Exchange_from(exchange_id))
    /\ UNCHANGED <<exchange_id, str_form, display, spot, futures, trades, liquidations>>

CallSupportsSpot ==
    /\ spot = None
    /\ spot' = Some(supports_spot(exchange_id))
    /\ UNCHANGED <<exchange_id, str_form, display, tag, futures, trades, liquidations>>

CallSupportsFutures ==
    /\ futures = None
    /\ futures' = Some(supports_futures(exchange_id))
    /\ UNCHANGED <<exchange_id, str_form, display, tag, spot, trades, liquidations>>

CallSupportsTrades ==
    /\ trades = None
    /\ trades' = Some(supports_trades(exchange_id))
    /\ UNCHANGED <<exchange_id, str_form, display, tag, spot, futures, liquidations>>

CallSupportsLiquidations ==
    /\ liquidations = None
    /\ liquidations' = Some(supports_liquidations(exchange_id))
    /\ UNCHANGED <<exchange_id, str_form, display, tag, spot, futures, trades>>

(***************************************************************************)
(* Connector defaults and the subscription handshake                       *)
(***************************************************************************)
\* identities a caller may subscribe to
MaxSubs == 3
Identities == 1..MaxSubs
\* an identity no subscription was ever made for
UnknownIdentity == MaxSubs + 1

\* an override-style policy applied as the default: one ack per batch
expected_responses_batch(m) == IF DOMAIN m = {} THEN 0 ELSE 1

\* Connector::expected_responses: map.0.len()
expected_responses(m) == Cardinality(DOMAIN m)

\* a shorter default window
subscription_timeout_short == 10 \div 2

\* Connector::subscription_timeout: Duration::from_secs(10), in seconds
subscription_timeout == 10

\* Connector::requests is exchange-specific: any batching of the subscriptions
\* into wire requests, none for an empty input
RequestCounts(subs) == IF subs = {} THEN {0} ELSE 1..Cardinality(subs)

Pending(m) == {i \in DOMAIN m : m[i] = "Pending"}
Confirmed(m) == {i \in DOMAIN m : m[i] = "Confirmed"}
Failed(m) == {i \in DOMAIN m : m[i] = "Failed"}

NoError == [kind |-> "none", ids |-> {}]

\* handshake completion rule: every expected ack arrived; subscribed only when
\* every entry is Confirmed
Outcome(m, resp, exp) ==
    IF resp < exp THEN "awaiting"
    ELSE IF Failed(m) = {} THEN "subscribed" ELSE "failed"

RejectedError(m, resp, exp) ==
    IF Outcome(m, resp, exp) = "failed" THEN [kind |-> "rejected", ids |-> Failed(m)]
    ELSE NoError

InitHandshake ==
    /\ hs = "idle"
    /\ map = << >>
    /\ n_requests = 0
    /\ expected = 0
    /\ responses = 0
    /\ elapsed = 0
    /\ error = NoError
    /\ violations = 0
    /\ duplicates = 0

\* the requests are sent: one Pending entry per requested identity
SendRequests(subs, nreq) ==
    /\ hs = "idle"
    /\ LET m == [i \in subs |-> "Pending"] IN
        /\ map' = m
        /\ n_requests' = nreq
        /\ expected' = expected_responses(m)
        /\ responses' = 0
        /\ elapsed' = 0
        /\ hs' = Outcome(m, 0, expected_responses(m))
    /\ UNCHANGED <<error, violations, duplicates>>

\* an inbound ack for a Pending entry; ok is the exchange's success indication
Ack(i, ok) ==
    /\ hs = "awaiting"
    /\ i \in Pending(map)
    /\ LET m == [map EXCEPT ![i] = IF ok THEN "Confirmed" ELSE "Failed"] IN
        /\ map' = m
        /\ responses' = responses + 1
        /\ hs' = Outcome(m, responses + 1, expected)
        /\ error' = RejectedError(m, responses + 1, expected)
    /\ UNCHANGED <<n_requests, expected, elapsed, violations, duplicates>>

\* a second ack for an already resolved identity is ignored but logged
MaxDuplicates == 1
DuplicateAck(i) ==
    /\ hs = "awaiting"
    /\ i \in DOMAIN map
    /\ i \notin Pending(map)
    /\ duplicates < MaxDuplicates
    /\ duplicates' = duplicates + 1
    /\ UNCHANGED <<hs, map, n_requests, expected, responses, elapsed, error, violations>>

\* an ack whose identity matches nothing in the map: a protocol violation,
\* the entries are left alone
MaxViolations == 1
UnknownAck ==
    /\ hs = "awaiting"
    /\ UnknownIdentity \notin DOMAIN map
    /\ violations < MaxViolations
    /\ violations' = violations + 1
    /\ UNCHANGED <<hs, map, n_requests, expected, responses, elapsed, error, duplicates>>

\* one second passes while acks are awaited; when the window has elapsed with
\* acks missing the handshake fails, naming the identities never resolved
Tick ==
    /\ hs = "awaiting"
    /\ elapsed < subscription_timeout
    /\ elapsed' = elapsed + 1
    /\ IF elapsed + 1 >= subscription_timeout /\ responses < expected
       THEN /\ hs' = "failed"
            /\ error' = [kind |-> "timeout", ids |-> Pending(map)]
       ELSE UNCHANGED <<hs, error>>
    /\ UNCHANGED <<map, n_requests, expected, responses, violations, duplicates>>

\* closing the connection discards the map; Pending entries are dropped
Close ==
    /\ hs \in {"awaiting", "subscribed", "failed"}
    /\ hs' = "closed"
    /\ map' = << >>
    /\ UNCHANGED <<n_requests, expected, responses, elapsed, error, violations, duplicates>>

(***************************************************************************)
(* Binance futures kline message                                           *)
(***************************************************************************)
\* Decimal texts as they appear on the wire, character by character
Txt0010 == <<"0", ".", "0", "0", "1", "0">>
Txt0020 == <<"0", ".", "0", "0", "2", "0">>
Txt0025 == <<"0", ".", "0", "0", "2", "5">>
Txt0015 == <<"0", ".", "0", "0", "1", "5">>
Txt1000 == <<"1", "0", "0", "0">>
Txt1_0000 == <<"1", ".", "0", "0", "0", "0">>
Txt500 == <<"5", "0", "0">>
Txt0_500 == <<"0", ".", "5", "0", "0">>

\* The payload example of candle.rs, with epoch milliseconds scaled down
ExampleMessage ==
    [e |-> "kline", E |-> 61500, s |-> "BTCUSDT",
     k |-> [t |-> 60000, T |-> 119999, s |-> "BTCUSDT", i |-> "1m", f |-> 100, L |-> 200,
            o |-> Txt0010, c |-> Txt0020, h |-> Txt0025, l |-> Txt0015, v |-> Txt1000,
            n |-> 100, x |-> FALSE, q |-> Txt1_0000, V |-> Txt500, Q |-> Txt0_500]]

\* the other value each varied wire field may take
OtherValue ==
    [E |-> 121500, s |-> "ETHUSDT", t |-> 120000, T |-> 179999, i |-> "5m",
     o |-> Txt0015, c |-> Txt0025, h |-> Txt0020, l |-> Txt0010, v |-> Txt500,
     n |-> 101, x |-> TRUE]

TopFields == {"E", "s"}
KlineFields == {"t", "T", "i", "o", "c", "h", "l", "v", "n", "x"}

\* m with one field switched between the example's value and the other value;
\* the kline's own symbol follows the message's symbol
Switch(m, fld) ==
    LET val(cur) == IF cur = OtherValue[fld] THEN
                        (IF fld \in TopFields THEN ExampleMessage[fld] ELSE ExampleMessage.k[fld])
                    ELSE OtherValue[fld]
    IN  IF fld = "s" THEN [m EXCEPT !.s = val(m.s), !.k.s = val(m.s)]
        ELSE IF fld = "E" THEN [m EXCEPT !.E = val(m.E)]
        ELSE [m EXCEPT !.k[fld] = val(m.k[fld])]

\* first messages of a connection
FirstFields == {"s", "t", "o", "x"}
RECURSIVE SwitchAll(_, _)
SwitchAll(m, flds) ==
    IF flds = {} THEN m
    ELSE LET fld == CHOOSE g \in flds : TRUE IN SwitchAll(Switch(m, fld), flds \ {fld})
FirstMessages == {SwitchAll(ExampleMessage, flds) : flds \in SUBSET FirstFields}

\* the messages that may follow m: m again, or m with one field changed
Following(m) == {m} \cup {Switch(m, fld) : fld \in TopFields \cup KlineFields}

Digit(ch) ==
    CASE ch = "0" -> 0 [] ch = "1" -> 1 [] ch = "2" -> 2 [] ch = "3" -> 3 [] ch = "4" -> 4
      [] ch = "5" -> 5 [] ch = "6" -> 6 [] ch = "7" -> 7 [] ch = "8" -> 8 [] ch = "9" -> 9

RECURSIVE DigitsValue(_)
DigitsValue(txt) ==
    IF txt = << >> THEN 0
    ELSE 10 * DigitsValue(SubSeq(txt, 1, Len(txt) - 1)) + Digit(txt[Len(txt)])

\* a decimal number mant / 10^exp in lowest terms: the value an f64 stands for
RECURSIVE Normalise(_, _)
Normalise(mant, exp) ==
    IF exp > 0 /\ mant % 10 = 0 THEN Normalise(mant \div 10, exp - 1)
    ELSE [mant |-> mant, exp |-> exp]

\* barter_integration::de::de_str::<f64>: the text is parsed as a decimal number
de_str(txt) ==
    LET dots == {p \in 1..Len(txt) : txt[p] = "."}
        dot == IF dots = {} THEN Len(txt) + 1 ELSE CHOOSE p \in dots : TRUE
        whole == SubSeq(txt, 1, dot - 1)
        frac == SubSeq(txt, dot + 1, Len(txt))
    IN  Normalise(DigitsValue(whole \o frac), Len(frac))

\* chrono DateTime<Utc>: whole seconds and nanoseconds since the epoch
DateTime(ms) == [secs |-> ms \div 1000, nanos |-> (ms % 1000) * 1000000]

\* barter_integration::de::de_u64_epoch_ms_as_datetime_utc
de_u64_epoch_ms_as_datetime_utc(ms) == DateTime(ms)

\* DateTime::<Utc>::default(): the epoch
DateTime_default == DateTime(0)

\* Utc::now(): the local clock's reading
Utc_now == DateTime(clock)

BinanceChannel_CANDLES == "@klines"
BinanceChannel_TRADES == "@trade"

\* ExchangeSub::from((channel, market))
ExchangeSub_from(channel, market) == [channel |-> channel, market |-> market]

\* ExchangeSub::id(): the identity of a (channel, market) pair
ExchangeSub_id(sub) == sub.channel \o sub.market

\* the identity is derived for the wrong channel
de_kline_subscription_id_trades(market) ==
    ExchangeSub_id(ExchangeSub_from(BinanceChannel_TRADES, market))

\* de_kline_subscription_id: "s" as the SubscriptionId of its candle subscription
de_kline_subscription_id(market) ==
    ExchangeSub_id(ExchangeSub_from(BinanceChannel_CANDLES, market))

\* Deserialize for BinanceKline: the serde aliases and deserialize_with functions
BinanceKline_deserialize(k) ==
    [start_time |-> de_u64_epoch_ms_as_datetime_utc(k.t),
     close_time |-> de_u64_epoch_ms_as_datetime_utc(k.T),
     symbol |-> k.s,
     interval |-> k.i,
     first_trade_id |-> k.f,
     last_trade_id |-> k.L,
     open |-> de_str(k.o),
     high |-> de_str(k.h),
     low |-> de_str(k.l),
     close |-> de_str(k.c),
     volume |-> de_str(k.v),
     num_trades |-> k.n,
     is_closed |-> k.x,
     quote_asset_volume |-> de_str(k.q),
     taker_base_asset_volume |-> de_str(k.V),
     taker_quote_asset_volume |-> de_str(k.Q)]

\* Deserialize for BinanceCandle
BinanceCandle_deserialize(m) ==
    [subscription_id |-> de_kline_subscription_id(m.s),
     kline |-> BinanceKline_deserialize(m.k)]

\* Identifier<Option<SubscriptionId>> for BinanceCandle
id(candle) == Some(candle.subscription_id)

\* the event is stamped with the kline's close time
MarketIter_from_close(ex, instr, candle, now) ==
    <<[ok |-> TRUE,
       value |-> [exchange_time |-> candle.kline.close_time,
                  received_time |-> now,
                  exchange |-> Exchange_from(ex),
                  instrument |-> instr,
                  kind |-> [close_time |-> DateTime_default,
                            open |-> candle.kline.open,
                            high |-> candle.kline.high,
                            low |-> candle.kline.low,
                            close |-> candle.kline.close,
                            volume |-> candle.kline.volume,
                            trade_count |-> candle.kline.num_trades]]]>>

\* the event is stamped with the local clock in both of its times
MarketIter_from_now(ex, instr, candle, now) ==
    <<[ok |-> TRUE,
       value |-> [exchange_time |-> now,
                  received_time |-> now,
                  exchange |-> Exchange_from(ex),
                  instrument |-> instr,
                  kind |-> [close_time |-> DateTime_default,
                            open |-> candle.kline.open,
                            high |-> candle.kline.high,
                            low |-> candle.kline.low,
                            close |-> candle.kline.close,
                            volume |-> candle.kline.volume,
                            trade_count |-> candle.kline.num_trades]]]>>

\* From<(ExchangeId, Instrument, BinanceCandle)> for MarketIter<Candle>;
\* now is the value Utc::now() returns during the call
MarketIter_from(ex, instr, candle, now) ==
    <<[ok |-> TRUE,
       value |-> [exchange_time |-> candle.kline.start_time,
                  received_time |-> now,
                  exchange |-> Exchange_from(ex),
                  instrument |-> instr,
                  kind |-> [close_time |-> DateTime_default,
                            open |-> candle.kline.open,
                            high |-> candle.kline.high,
                            low |-> candle.kline.low,
                            close |-> candle.kline.close,
                            volume |-> candle.kline.volume,
                            trade_count |-> candle.kline.num_trades]]]>>

MaxMessages == 2
MaxClock == 2

Instruments ==
    {[base |-> "btc", quote |-> "usdt", kind |-> "FuturePerpetual"],
     [base |-> "eth", quote |-> "usdt", kind |-> "FuturePerpetual"]}

InitCandle ==
    /\ clock = 0
    /\ instrument \in Instruments
    /\ raws = << >>
    /\ candles = << >>
    /\ ids = << >>
    /\ outs = << >>

\* the next message arrives once the previous one has been fully handled
Receive(m) ==
    /\ Len(raws) < MaxMessages
    /\ Len(outs) = Len(raws)
    /\ raws' = Append(raws, m)
    /\ UNCHANGED <<clock, instrument, candles, ids, outs>>

Deserialize ==
    /\ Len(candles) < Len(raws)
    /\ candles' = Append(candles, BinanceCandle_deserialize(raws[Len(raws)]))
    /\ UNCHANGED <<clock, instrument, raws, ids, outs>>

Identify ==
    /\ Len(ids) < Len(candles)
    /\ ids' = Append(ids, id(candles[Len(candles)]))
    /\ UNCHANGED <<clock, instrument, raws, candles, outs>>

Normalize ==
    /\ Len(outs) < Len(ids)
    /\ outs' = Append(outs, MarketIter_from(exchange_id, instrument, candles[Len(candles)], Utc_now))
    /\ UNCHANGED <<clock, instrument, raws, candles, ids>>

AdvanceClock ==
    /\ clock < MaxClock
    /\ clock' = clock + 1
    /\ UNCHANGED <<instrument, raws, candles, ids, outs>>

(***************************************************************************)
(* Specifications                                                          *)
(***************************************************************************)
\* the exchanges whose kline stream has this wire shape
BinanceExchanges == {"BinanceFuturesUsd", "BinanceSpot"}

\* the capability and string surface of one ExchangeId
InitExchangeSurface == InitExchange /\ InitHandshake /\ InitCandle

NextExchange ==
    \/ CallAsStr /\ UNCHANGED <<handshakeVars, candleVars>>
    \/ CallDisplay /\ UNCHANGED <<handshakeVars, candleVars>>
    \/ CallExchangeFrom /\ UNCHANGED <<handshakeVars, candleVars>>
    \/ CallSupportsSpot /\ UNCHANGED <<handshakeVars, candleVars>>
    \/ CallSupportsFutures /\ UNCHANGED <<handshakeVars, candleVars>>
    \/ CallSupportsTrades /\ UNCHANGED <<handshakeVars, candleVars>>
    \/ CallSupportsLiquidations /\ UNCHANGED <<handshakeVars, candleVars>>

SpecExchange == InitExchangeSurface /\ [][NextExchange]_vars

\* one connection's subscription handshake
InitConnection ==
    /\ InitExchange
    /\ exchange_id \in BinanceExchanges
    /\ InitHandshake
    /\ InitCandle

NextHandshake ==
    \/ \E subs \in SUBSET Identities : \E nreq \in RequestCounts(subs) :
          SendRequests(subs, nreq) /\ UNCHANGED <<exchangeVars, candleVars>>
    \/ \E i \in Identities : \E ok \in BOOLEAN :
          Ack(i, ok) /\ UNCHANGED <<exchangeVars, candleVars>>
    \/ \E i \in Identities : DuplicateAck(i) /\ UNCHANGED <<exchangeVars, candleVars>>
    \/ UnknownAck /\ UNCHANGED <<exchangeVars, candleVars>>
    \/ Tick /\ UNCHANGED <<exchangeVars, candleVars>>
    \/ Close /\ UNCHANGED <<exchangeVars, candleVars>>

SpecHandshake == InitConnection /\ [][NextHandshake]_vars

\* the kline stream of one subscribed Binance connection
InitStream ==
    /\ InitExchange
    /\ exchange_id \in BinanceExchanges
    /\ InitHandshake
    /\ InitCandle

NextCandle ==
    \/ \E m \in (IF raws = << >> THEN FirstMessages ELSE Following(raws[Len(raws)])) :
          Receive(m) /\ UNCHANGED <<exchangeVars, handshakeVars>>
    \/ Deserialize /\ UNCHANGED <<exchangeVars, handshakeVars>>
    \/ Identify /\ UNCHANGED <<exchangeVars, handshakeVars>>
    \/ Normalize /\ UNCHANGED <<exchangeVars, handshakeVars>>
    \/ AdvanceClock /\ UNCHANGED <<exchangeVars, handshakeVars>>

SpecCandle == InitStream /\ [][NextCandle]_vars

(***************************************************************************)
(* Properties                                                              *)
(***************************************************************************)
Event(n) == outs[n][1].value
Payload(n) == Event(n).kind
Handled == 1..Len(outs)

\* C1: every BinanceCandle message, closed or not, is converted into exactly one
\* element, which is Ok; its exchange_time is the kline's start time (neither the
\* close time nor the event time) and its open and close are the parsed "o" and "c"
\* ("0.0010" as 0.001, "0.0020" as 0.002).
C1_OneOkEventAtStartTime ==
    \A n \in Handled :
        /\ Len(outs[n]) = 1
        /\ outs[n][1].ok
        /\ Event(n).exchange_time = DateTime(raws[n].k.t)
        /\ Event(n).exchange_time # DateTime(raws[n].k.T)
        /\ Event(n).exchange_time # DateTime(raws[n].E)
        /\ Payload(n).open = de_str(raws[n].k.o)
        /\ Payload(n).close = de_str(raws[n].k.c)
        /\ raws[n].k.o = Txt0010 => Payload(n).open = [mant |-> 1, exp |-> 3]
        /\ raws[n].k.c = Txt0020 => Payload(n).close = [mant |-> 2, exp |-> 3]

\* the scenario of the specification: an unclosed BTCUSDT kline, open "0.0010",
\* close "0.0020", has been normalised
C1_Witness ==
    \E n \in Handled :
        /\ raws[n].s = "BTCUSDT"
        /\ raws[n].k.x = FALSE
        /\ raws[n].k.o = Txt0010
        /\ raws[n].k.c = Txt0020
        /\ Len(outs[n]) = 1

\* C2: an unclosed kline is still emitted and the Candle payload carries the kline's
\* is_closed value as a boolean attribute, so two klines that differ only in
\* is_closed give different payloads.
C2_IsClosedCarried ==
    /\ \A n \in Handled :
          /\ Len(outs[n]) = 1
          /\ "is_closed" \in DOMAIN Payload(n)
          /\ Payload(n).is_closed = raws[n].k.x
    /\ \A a \in Handled : \A b \in Handled :
          (raws[a] # raws[b] /\ [raws[a] EXCEPT !.k.x = raws[b].k.x] = raws[b])
              => Payload(a) # Payload(b)

C4_ExpectedIsMapSize ==
    hs \in {"awaiting", "subscribed", "failed"} =>
        /\ expected = Cardinality(DOMAIN map)
        /\ DOMAIN map = {} => expected = 0

\* three subscriptions batched into one wire request
C4_Witness ==
    /\ hs = "awaiting"
    /\ n_requests = 1
    /\ Cardinality(DOMAIN map) = MaxSubs
    /\ expected = MaxSubs

WithoutReceived(item) == [item EXCEPT !.value.received_time = DateTime_default]

\* C5: the same message normalised twice for the same exchange and instrument gives
\* sequences of the same length that agree in every field but received_time, which
\* is a reading of the local clock.
C5_SameMessageSameEvent ==
    /\ \A a \in Handled : \A b \in Handled :
          raws[a] = raws[b] =>
              /\ Len(outs[a]) = Len(outs[b])
              /\ \A k \in 1..Len(outs[a]) :
                    WithoutReceived(outs[a][k]) = WithoutReceived(outs[b][k])
    /\ \A n \in Handled :
          Event(n).received_time \in {DateTime(c) : c \in 0..clock}

\* the same message normalised at two different clock readings
C5_Witness ==
    \E a \in Handled : \E b \in Handled :
        /\ a < b
        /\ raws[a] = raws[b]
        /\ Event(a).received_time # Event(b).received_time

UpperCase ==
    <<"A","B","C","D","E","F","G","H","I","J","K","L","M",
      "N","O","P","Q","R","S","T","U","V","W","X","Y","Z">>
LowerCase ==
    <<"a","b","c","d","e","f","g","h","i","j","k","l","m",
      "n","o","p","q","r","s","t","u","v","w","x","y","z">>
to_lowercase(txt) ==
    [p \in 1..Len(txt) |->
        IF \E q \in 1..26 : UpperCase[q] = txt[p]
        THEN LowerCase[CHOOSE q \in 1..26 : UpperCase[q] = txt[p]]
        ELSE txt[p]]

\* C6: supports_spot() is false only for BinanceFuturesUsd, supports_futures() is
\* true exactly for BinanceFuturesUsd and Okx, supports_trades() is true for every
\* variant, supports_liquidations() is true exactly for BinanceFuturesUsd.
C6_CapabilityMatrix ==
    /\ spot.some => spot.value = (exchange_id # "BinanceFuturesUsd")
    /\ futures.some => futures.value = (exchange_id \in {"BinanceFuturesUsd", "Okx"})
    /\ trades.some => trades.value = TRUE
    /\ liquidations.some => liquidations.value = (exchange_id = "BinanceFuturesUsd")

\* the four predicates have been evaluated for Okx
C6_Witness ==
    /\ exchange_id = "Okx"
    /\ spot = Some(TRUE)
    /\ futures = Some(TRUE)
    /\ trades = Some(TRUE)
    /\ liquidations = Some(FALSE)

\* C7: as_str() is all lowercase, Display and the Exchange tag are exactly that
\* string, and no other variant has the same string.
C7_StringForm ==
    /\ str_form.some =>
          /\ str_form.value # << >>
          /\ to_lowercase(str_form.value) = str_form.value
          /\ \A other \in ExchangeId \ {exchange_id} : as_str(other) # str_form.value
          /\ {e \in ExchangeId : as_str(e) = str_form.value} = {exchange_id}
    /\ (str_form.some /\ display.some) => display.value = str_form.value
    /\ (str_form.some /\ tag.some) => tag.value.exchange = str_form.value

\* the three string forms of a two-word variant have been produced
C7_Witness ==
    /\ exchange_id = "GateioFuturesBtc"
    /\ str_form.some
    /\ display.some
    /\ tag.some

\* C8: id() of a BinanceCandle is Some identity, the one of the candle subscription
\* of the message's symbol; messages with the same symbol have the same identity
\* whatever their other fields.
C8_IdentityFromChannelAndSymbol ==
    /\ \A n \in 1..Len(ids) :
          /\ ids[n].some
          /\ ids[n].value =
                ExchangeSub_id(ExchangeSub_from(BinanceChannel_CANDLES, raws[n].s))
    /\ \A a \in 1..Len(ids) : \A b \in 1..Len(ids) :
          raws[a].s = raws[b].s => ids[a] = ids[b]

\* two messages for one symbol with different kline intervals, both identified
C8_Witness ==
    \E a \in 1..Len(ids) : \E b \in 1..Len(ids) :
        /\ raws[a].s = raws[b].s
        /\ raws[a].k.i # raws[b].k.i
        /\ ids[a].some
        /\ ids[b].some

\* C9: every variant of a futures market segment reports supports_futures() = true.
C9_FuturesSegmentSupportsFutures ==
    (exchange_id \in FuturesSegment /\ futures.some) => futures.value = TRUE

\* C10: the payload's close_time is the kline's close time "T", and its high, low,
\* volume and trade_count are the kline's high, low, volume and num_trades.
C10_CloseTimeAndFields ==
    \A n \in Handled :
        /\ Payload(n).close_time = DateTime(raws[n].k.T)
        /\ Payload(n).high = de_str(raws[n].k.h)
        /\ Payload(n).low = de_str(raws[n].k.l)
        /\ Payload(n).volume = de_str(raws[n].k.v)
        /\ Payload(n).trade_count = raws[n].k.n

====
